---- MODULE Spec2Model ----
(***************************************************************************)
(* CrossBow: SecurityAgentSystem (src/Agent.py) and the interactive shell  *)
(* that owns one live instance of it (src/crossbow_cli.py).                *)
(*                                                                         *)
(* Four specifications share this module:                                  *)
(*   SpecResolve  the model resolver _get_model on bounded identifiers     *)
(*   SpecBuild    the capability build _initialize_tools on spec lists     *)
(*   SpecSystem   construction of a system and calls on the instance       *)
(*   Spec         the shell's command loop around the active instance      *)
(***************************************************************************)
EXTENDS Integers, Sequences, FiniteSets, TLC

VARIABLES
    \* --- resolver harness (SpecResolve)
    model_id,        \* the identifier handed to _get_model
    litellm,         \* what the generic adapter's import/instantiation does
    resolved,        \* the result of _get_model, or Pending
    \* --- capability build harness (SpecBuild)
    use_mcp,         \* self.use_mcp
    servers,         \* self.mcp_servers
    bad,             \* the commands and URLs whose attachment raises
    built,           \* the result of _initialize_tools, or NotBuilt
    \* --- the process (all specifications)
    SECURITY_TOOLS,  \* the module-level list src.tools.SECURITY_TOOLS
    uuids,           \* how many times uuid.uuid4() has been called
    \* --- a caller of the class (SpecSystem) and the shell (Spec)
    agent_system,    \* the instance the caller holds, or None
    last,            \* what the latest call, task or state-changing command did
    sessions,        \* history: the session ids of the instances held so far
    \* --- a caller of the class (SpecSystem)
    args,            \* the constructor arguments the caller uses
    \* --- the shell, main() of crossbow_cli.py (Spec)
    current_model,
    memory_enabled,
    storage_enabled,
    mcp_enabled,
    mcp_servers,
    running          \* FALSE once the command loop has been left

resolveVars == <<model_id, litellm, resolved>>
buildVars   == <<use_mcp, servers, bad, built>>
procVars    == <<SECURITY_TOOLS, uuids>>
holderVars  == <<agent_system, last, sessions>>
callerVars  == <<args>>
shellVars   == <<current_model, memory_enabled, storage_enabled, mcp_enabled,
                 mcp_servers, running>>

vars == <<model_id, litellm, resolved, use_mcp, servers, bad, built,
          SECURITY_TOOLS, uuids, agent_system, last, sessions, args,
          current_model, memory_enabled, storage_enabled, mcp_enabled,
          mcp_servers, running>>

-----------------------------------------------------------------------------
(* Strings are sequences of one-character strings, so that str.lower() and  *)
(* the substring test `frag in s` are computed and not assumed.             *)

\* str.lower() on one character
LowerChar(c) ==
    CASE c = "A" -> "a" [] c = "B" -> "b" [] c = "C" -> "c" [] c = "D" -> "d"
      [] c = "E" -> "e" [] c = "F" -> "f" [] c = "G" -> "g" [] c = "H" -> "h"
      [] c = "I" -> "i" [] c = "J" -> "j" [] c = "K" -> "k" [] c = "L" -> "l"
      [] c = "M" -> "m" [] c = "N" -> "n" [] c = "O" -> "o" [] c = "P" -> "p"
      [] c = "Q" -> "q" [] c = "R" -> "r" [] c = "S" -> "s" [] c = "T" -> "t"
      [] c = "U" -> "u" [] c = "V" -> "v" [] c = "W" -> "w" [] c = "X" -> "x"
      [] c = "Y" -> "y" [] c = "Z" -> "z"
      [] OTHER -> c

\* str.lower()
Lower(s) == [i \in 1..Len(s) |-> LowerChar(s[i])]

\* Python's `frag in s` for strings (t is s, evaluated once)
Contains(s, frag) ==
    \E t \in {s} :
        \E i \in 1..(Len(t) - Len(frag) + 1) : SubSeq(t, i, i + Len(frag) - 1) = frag

\* the literals of _get_model
F_claude == <<"c", "l", "a", "u", "d", "e">>
F_gpt    == <<"g", "p", "t">>
F_o1     == <<"o", "1">>
F_o3     == <<"o", "3">>
F_gemini == <<"g", "e", "m", "i", "n", "i">>

\* a model adapter object, or the exception that left the resolver
Adapter(cls, id) == [exc |-> "none", cls |-> cls, id |-> id]
Raised(exc)      == [exc |-> exc, cls |-> "none", id |-> <<>>]

\* what the generic adapter branch can do: import and instantiate, fail to
\* import (ImportError), or raise anything else while instantiating
LiteLLMOutcomes == {"ok", "ImportError", "Exception"}

\* the else-branch of _get_model: try LiteLLM, except ImportError -> OpenAIChat
GenericBranch(id, env) ==
    CASE env = "ok"          -> Adapter("LiteLLM", id)
      [] env = "ImportError" -> Adapter("OpenAIChat", id)
      [] OTHER               -> Raised(env)

\* _get_model with the .lower() calls dropped (a case-sensitive resolver)
_get_model_case_sensitive(id, env) ==
    IF Contains(id, F_claude) THEN Adapter("Claude", id)
    ELSE IF \/ Contains(id, F_gpt)
            \/ Contains(id, F_o1)
            \/ Contains(id, F_o3) THEN Adapter("OpenAIChat", id)
    ELSE IF Contains(id, F_gemini) THEN Adapter("Gemini", id)
    ELSE GenericBranch(id, env)

\* SecurityAgentSystem._get_model
_get_model(id, env) ==
    IF Contains(Lower(id), F_claude) THEN Adapter("Claude", id)
    ELSE IF \/ Contains(Lower(id), F_gpt)
            \/ Contains(Lower(id), F_o1)
            \/ Contains(Lower(id), F_o3) THEN Adapter("OpenAIChat", id)
    ELSE IF Contains(Lower(id), F_gemini) THEN Adapter("Gemini", id)
    ELSE GenericBranch(id, env)

-----------------------------------------------------------------------------
(* The capability build: SecurityAgentSystem._initialize_tools.            *)

None == [kind |-> "None"]

\* an external-provider spec is a dict: a record whose DOMAIN is its keys
HasKey(d, k) == k \in DOMAIN d

\* the elements of a list
Range(seq) == { seq[i] : i \in DOMAIN seq }

\* dict.get(key, default)
Get(d, k, default) == IF k \in DOMAIN d THEN d[k] ELSE default

\* the fixed catalogue of security tools (src/tools.py), the value of
\* SECURITY_TOOLS when the module has been imported
Catalogue ==
    << [kind |-> "tool", name |-> "nmap_scan"],
       [kind |-> "tool", name |-> "nuclei_scan"],
       [kind |-> "tool", name |-> "semgrep_scan"] >>

\* self.base_tools
base_tools ==
    << [kind |-> "DuckDuckGoTools"],
       [kind |-> "FileTools", base_dir |-> ".", enable_save_file |-> TRUE,
        enable_delete_file |-> FALSE] >>

\* MultiMCPTools(commands): one bridge over all the commands
MultiMCPTools(commands) == [kind |-> "MultiMCPTools", commands |-> commands]

\* MCPTools(url=..., transport=...)
MCPTools(url, transport) == [kind |-> "MCPTools", url |-> url, transport |-> transport]

\* the constructors raise for the commands and URLs in b
MultiMCPToolsRaises(commands, b) == \E i \in 1..Len(commands) : commands[i] \in b
MCPToolsRaises(url, b) == url \in b

\* the warnings the build prints
WarnUrl(server) == [warning |-> "Failed to initialize MCP server",
                    name |-> Get(server, "name", "unknown")]
WarnMcp == [warning |-> "Failed to initialize MCP tools", name |-> ""]

\* commands: server['command'] of every spec that has the key 'command'
RECURSIVE CommandsOf(_)
CommandsOf(ss) ==
    IF ss = <<>> THEN <<>>
    ELSE IF HasKey(Head(ss), "command")
         THEN <<Head(ss).command>> \o CommandsOf(Tail(ss))
         ELSE CommandsOf(Tail(ss))

\* url_servers: the specs without 'command' that have the key 'url'
UrlServersOf(ss) ==
    SelectSeq(ss, LAMBDA s : ~HasKey(s, "command") /\ HasKey(s, "url"))

\* the URL loop with the inner try/except missing: the first failure leaves
\* the loop for the outer handler
RECURSIVE AttachUrlsAborting(_, _, _)
AttachUrlsAborting(url_servers, acc, b) ==
    IF url_servers = <<>> THEN acc
    ELSE IF MCPToolsRaises(Head(url_servers).url, b)
         THEN [acc EXCEPT !.warnings = @ \o <<WarnMcp>>]
         ELSE AttachUrlsAborting(Tail(url_servers),
                  [acc EXCEPT !.tools = @ \o <<MCPTools(Head(url_servers).url,
                                Get(Head(url_servers), "transport", "streamable-http"))>>],
                  b)

\* the URL loop with tools.insert(0, ...) in place of tools.append(...)
RECURSIVE AttachUrlsInFront(_, _, _)
AttachUrlsInFront(url_servers, acc, b) ==
    IF url_servers = <<>> THEN acc
    ELSE AttachUrlsInFront(Tail(url_servers),
             IF MCPToolsRaises(Head(url_servers).url, b)
             THEN [acc EXCEPT !.warnings = @ \o <<WarnUrl(Head(url_servers))>>]
             ELSE [acc EXCEPT !.tools = <<MCPTools(Head(url_servers).url,
                                Get(Head(url_servers), "transport", "streamable-http"))>> \o @],
             b)

\* for url_server in url_servers: try: tools.append(MCPTools(...)) except: warn
RECURSIVE AttachUrls(_, _, _)
AttachUrls(url_servers, acc, b) ==
    IF url_servers = <<>> THEN acc
    ELSE AttachUrls(Tail(url_servers),
             IF MCPToolsRaises(Head(url_servers).url, b)
             THEN [acc EXCEPT !.warnings = @ \o <<WarnUrl(Head(url_servers))>>]
             ELSE [acc EXCEPT !.tools = @ \o <<MCPTools(Head(url_servers).url,
                                Get(Head(url_servers), "transport", "streamable-http"))>>],
             b)

\* the body of the outer try: the bridge over the commands, then the URLs.
\* acc is [tools, mcp_tools, warnings, exc]; an exception of MultiMCPTools
\* leaves the body before anything is appended.
AttachAll(ss, acc, b) ==
    LET commands == CommandsOf(ss)
        url_servers == UrlServersOf(ss)
    IN  IF commands # <<>> /\ MultiMCPToolsRaises(commands, b)
        THEN [acc EXCEPT !.exc = "MultiMCPTools"]
        ELSE AttachUrls(url_servers,
                 IF commands # <<>>
                 THEN [acc EXCEPT !.mcp_tools = MultiMCPTools(commands),
                                  !.tools = @ \o <<MultiMCPTools(commands)>>]
                 ELSE acc,
                 b)

\* the outer try without its except clause: the exception leaves the build
OuterExceptMissing(acc) == acc

\* except Exception as e: print the warning and go on
OuterExcept(acc) ==
    IF acc.exc = "none" THEN acc
    ELSE [acc EXCEPT !.exc = "none", !.warnings = @ \o <<WarnMcp>>]

\* SECURITY_TOOLS.extend(self.base_tools); tools = SECURITY_TOOLS: the
\* module-level list itself is extended and used
StartToolsExtending(catalogue) ==
    [tools |-> catalogue \o base_tools, mcp_tools |-> None, warnings |-> <<>>,
     exc |-> "none", catalogue |-> catalogue \o base_tools]

\* tools = SECURITY_TOOLS + self.base_tools: a new list; the module-level
\* list (catalogue) is left as it is
StartTools(catalogue) ==
    [tools |-> catalogue \o base_tools, mcp_tools |-> None, warnings |-> <<>>,
     exc |-> "none", catalogue |-> catalogue]

\* SecurityAgentSystem._initialize_tools:
\* [tools, mcp_tools, warnings, exc, catalogue]
_initialize_tools(catalogue, umcp, ss, b) ==
    IF umcp /\ ss # <<>>
    THEN OuterExcept(AttachAll(ss, StartTools(catalogue), b))
    ELSE StartTools(catalogue)

-----------------------------------------------------------------------------
(* Construction of a system: SecurityAgentSystem.__init__ and the methods   *)
(* it calls.                                                                *)

\* d[k] = v on a dict
Put(d, k, v) == [x \in DOMAIN d \cup {k} |-> IF x = k THEN v ELSE d[x]]

\* a uuid4 that returns again what its previous call returned
uuid4_reused(n) == IF n = 0 THEN 1 ELSE n

\* uuid.uuid4() when it has been called n times before: a value no earlier
\* call returned
uuid4(n) == n + 1

\* SqliteDb(db_file=str(path))
SqliteDb(db_file) == [kind |-> "SqliteDb", db_file |-> db_file]
StoragePath == "~/.crossbow/agent_storage.db"
MemoryPath  == "~/.crossbow/crossbow_agents.db"

\* what the environment does to one construction: the generic adapter's
\* import, the attachments that raise, and the other constructor that raises
Faults == {"none", "base_tools", "storage_db", "memory_db", "agents", "team"}

\* Objects are shared by reference: a keyword argument that is given an
\* attribute of the system (self.model, self.all_tools, self.storage_db,
\* self.memory_db) holds a reference to that attribute's object.
Ref(attr) == [kind |-> "ref", attr |-> attr]
Deref(sys, x) == IF x = None THEN None ELSE sys[x.attr]

\* agent_kwargs with the two blocks in the other order: storage on top of
\* memory
agent_kwargs_storage_on_top(storage_db, memory_db) ==
    LET k0 == [model |-> Ref("model"), tools |-> Ref("all_tools")]
        k1 == IF memory_db # None
              THEN Put(Put(Put(k0, "db", Ref("memory_db")), "enable_user_memories", TRUE),
                       "add_history_to_context", TRUE)
              ELSE k0
    IN  IF storage_db # None
        THEN Put(Put(k1, "db", Ref("storage_db")), "add_history_to_context", TRUE)
        ELSE k1

\* agent_kwargs of _create_all_agents
agent_kwargs(storage_db, memory_db) ==
    LET k0 == [model |-> Ref("model"), tools |-> Ref("all_tools")]
        k1 == IF storage_db # None
              THEN Put(Put(k0, "db", Ref("storage_db")), "add_history_to_context", TRUE)
              ELSE k0
    IN  IF memory_db # None
        THEN Put(Put(Put(k1, "db", Ref("memory_db")), "enable_user_memories", TRUE),
                 "add_history_to_context", TRUE)
        ELSE k1

\* an Agent that keeps a list of its own, copied from the tools it is given
Agent_with_own_tools(name, role, instructions, kwargs) ==
    [name |-> name, role |-> role, instructions |-> instructions,
     model |-> kwargs.model,
     tools |-> [kind |-> "copy", attr |-> kwargs.tools.attr, owner |-> name],
     db |-> Get(kwargs, "db", None),
     add_history_to_context |-> Get(kwargs, "add_history_to_context", FALSE),
     enable_user_memories |-> Get(kwargs, "enable_user_memories", FALSE)]

\* Agent(name=..., role=..., instructions=[...], **agent_kwargs); a keyword
\* that is not passed has the library's default (None, False)
Agent(name, role, instructions, kwargs) ==
    [name |-> name, role |-> role, instructions |-> instructions,
     model |-> kwargs.model, tools |-> kwargs.tools,
     db |-> Get(kwargs, "db", None),
     add_history_to_context |-> Get(kwargs, "add_history_to_context", FALSE),
     enable_user_memories |-> Get(kwargs, "enable_user_memories", FALSE)]

\* the sixteen Agent(...) calls of _create_all_agents, in order
Created ==
    <<
       [attr |-> "android_agent", name |-> "Android SAST Specialist",
        role |-> "Android Security Testing Expert",
        instructions |-> <<"ANDROID_SAST_AGENT_PROMPT">>],
       [attr |-> "blue_team_agent", name |-> "Blue Team Defender",
        role |-> "Defense and Security Monitoring",
        instructions |-> <<"BLUETEAM_AGENT_PROMPT">>],
       [attr |-> "bug_bounty_agent", name |-> "Bug Bounty Hunter",
        role |-> "Web Vulnerability Research",
        instructions |-> <<"BUG_BOUNTY_AGENT_PROMPT">>],
       [attr |-> "coding_agent", name |-> "Security Developer",
        role |-> "Security Tool Development",
        instructions |-> <<"CODE_AGENT">>],
       [attr |-> "dfir_agent", name |-> "DFIR Investigator",
        role |-> "Digital Forensics and Incident Response",
        instructions |-> <<"DFIR_AGENT_PROMPT">>],
       [attr |-> "email_security_agent", name |-> "Email Security Analyst",
        role |-> "Email Configuration Security",
        instructions |-> <<"EMAIL_SPOOF_AGENT_PROMPT">>],
       [attr |-> "memory_agent", name |-> "Memory Forensics Expert",
        role |-> "Runtime Memory Analysis",
        instructions |-> <<"MEMPORY_ANALYSIS_PROMPT">>],
       [attr |-> "network_agent", name |-> "Network Security Analyst",
        role |-> "Network Traffic Analysis",
        instructions |-> <<"NETWORK_ANALYSER_PROMPT">>],
       [attr |-> "red_team_agent", name |-> "Red Team Operator",
        role |-> "Offensive Security Operations",
        instructions |-> <<"RED_TEAM_AGENT_PROMPT">>],
       [attr |-> "replay_attack_agent", name |-> "Replay Attack Specialist",
        role |-> "Network Replay and Analysis",
        instructions |-> <<"REPlAY_ATTACK_AGENT_PROMPT">>],
       [attr |-> "reporting_agent", name |-> "Security Reporter",
        role |-> "Security Documentation",
        instructions |-> <<"REPORTING_AGENT_PROMPT">>],
       [attr |-> "triage_agent", name |-> "Vulnerability Validator",
        role |-> "Security Finding Verification",
        instructions |-> <<"TRIAGER_AGENT_PROMPT">>],
       [attr |-> "reverse_engineering_agent", name |-> "Reverse Engineer",
        role |-> "Binary Analysis and RE",
        instructions |-> <<"REVERSE_ENGINEERING_AGENT_PROMPT">>],
       [attr |-> "subghz_agent", name |-> "RF Security Expert",
        role |-> "Sub-GHz Radio Analysis",
        instructions |-> <<"SUBGHZ_AGENT_PROMPT">>],
       [attr |-> "wifi_agent", name |-> "WiFi Security Tester",
        role |-> "Wireless Network Security",
        instructions |-> <<"WIFI_SECURITY_AGENT_PROMPT">>],
       [attr |-> "source_code_analyzer_agent", name |-> "Source Code Analyzer",
        role |-> "SAST and Exploit Verification Specialist",
        instructions |-> <<"SOURCE_CODE_ANALYZER_AGENT_PROMPT">>]
    >>

AgentAttrs == { Created[i].attr : i \in DOMAIN Created }

\* SecurityAgentSystem._create_all_agents: the attributes it sets
_create_all_agents(storage_db, memory_db) ==
    LET kwargs == agent_kwargs(storage_db, memory_db)
    IN  [a \in AgentAttrs |->
            LET c == Created[CHOOSE i \in DOMAIN Created : Created[i].attr = a]
            IN  Agent(c.name, c.role, c.instructions, kwargs)]

\* team_kwargs["members"]: the agents listed, in order, by attribute
Members ==
    <<
       "android_agent",
       "blue_team_agent",
       "bug_bounty_agent",
       "coding_agent",
       "dfir_agent",
       "email_security_agent",
       "memory_agent",
       "network_agent",
       "red_team_agent",
       "replay_attack_agent",
       "reporting_agent",
       "triage_agent",
       "reverse_engineering_agent",
       "subghz_agent",
       "wifi_agent",
       "source_code_analyzer_agent"
    >>

\* team_kwargs with a roster that depends on the configuration: the memory
\* specialist is a member only when there is a memory store
team_kwargs_roster_by_config(memory_db) ==
    LET k0 == [name |-> "Security Assessment Team", model |-> Ref("model"),
               respond_directly |-> TRUE,
               members |-> IF memory_db # None THEN Members
                           ELSE SelectSeq(Members, LAMBDA m : m # "memory_agent"),
               markdown |-> TRUE,
               instructions |-> <<"THOUGHT_ROUTER_MANAGER_AGENT_PROMPT">>,
               show_members_responses |-> TRUE, add_history_to_context |-> TRUE]
    IN  IF memory_db # None
        THEN Put(Put(k0, "db", Ref("memory_db")), "enable_user_memories", TRUE)
        ELSE k0

\* team_kwargs of _create_security_team
team_kwargs(memory_db) ==
    LET k0 == [name |-> "Security Assessment Team", model |-> Ref("model"),
               respond_directly |-> TRUE, members |-> Members, markdown |-> TRUE,
               instructions |-> <<"THOUGHT_ROUTER_MANAGER_AGENT_PROMPT">>,
               show_members_responses |-> TRUE, add_history_to_context |-> TRUE]
    IN  IF memory_db # None
        THEN Put(Put(k0, "db", Ref("memory_db")), "enable_user_memories", TRUE)
        ELSE k0

\* Team(**team_kwargs), with the library's defaults for what is not passed
Team(kwargs) ==
    [name |-> kwargs.name, model |-> kwargs.model,
     respond_directly |-> kwargs.respond_directly, members |-> kwargs.members,
     markdown |-> kwargs.markdown, instructions |-> kwargs.instructions,
     show_members_responses |-> kwargs.show_members_responses,
     add_history_to_context |-> kwargs.add_history_to_context,
     db |-> Get(kwargs, "db", None),
     enable_user_memories |-> Get(kwargs, "enable_user_memories", FALSE)]

\* a construction that raised exc after n calls of uuid4
Failed(exc, n, catalogue) ==
    [exc |-> exc, system |-> None, uuids |-> n, catalogue |-> catalogue]

\* the rest of __init__ once self.model and self.all_tools (model, init) have
\* been computed: the databases, the agents, the team
InitRest(model_name, model, use_memory, use_storage, umcp, ss, init, n, fault) ==
    LET storage_db == IF use_storage THEN SqliteDb(StoragePath) ELSE None
        memory_db  == IF use_memory THEN SqliteDb(MemoryPath) ELSE None
    IN  IF init.exc # "none" THEN Failed(init.exc, n, init.catalogue)
        ELSE IF use_storage /\ fault = "storage_db"
             THEN Failed("SqliteDb", n, init.catalogue)
        ELSE IF use_memory /\ fault = "memory_db"
             THEN Failed("SqliteDb", n, init.catalogue)
        ELSE IF fault = "agents" THEN Failed("Agent", n, init.catalogue)
        ELSE IF fault = "team" THEN Failed("Team", n + 1, init.catalogue)
        ELSE [exc |-> "none",
              system |->
                [model_name |-> model_name, model |-> model,
                 use_memory |-> use_memory, use_storage |-> use_storage,
                 use_mcp |-> umcp, mcp_servers_is_arg |-> (ss # <<>>),
                 mcp_tools |-> init.mcp_tools, base_tools |-> base_tools,
                 all_tools |-> init.tools, warnings |-> init.warnings,
                 attached_from |-> IF umcp THEN ss ELSE <<>>,
                 storage_db |-> storage_db, memory_db |-> memory_db,
                 agents |-> _create_all_agents(storage_db, memory_db),
                 session_id |-> uuid4(n),
                 security_team |-> Team(team_kwargs(memory_db))],
              uuids |-> n + 1, catalogue |-> init.catalogue]

\* the start of __init__ once _get_model has returned or raised
InitFrom(model_name, model, use_memory, use_storage, umcp, ss, catalogue, n, env) ==
    IF model.exc # "none" THEN Failed(model.exc, n, catalogue)
    ELSE IF env.fault = "base_tools" THEN Failed("FileTools", n, catalogue)
    ELSE InitRest(model_name, model, use_memory, use_storage, umcp, ss,
                  _initialize_tools(catalogue, umcp, ss, env.bad), n, env.fault)

\* SecurityAgentSystem(model_name, use_memory, use_storage, use_mcp,
\* mcp_servers) in a process where uuid4 has been called n times:
\* [exc, system, uuids, catalogue].  mcp_servers_is_arg says that
\* self.mcp_servers is the caller's list object (`mcp_servers or []`).
\* attached_from is not an attribute: it records the specs that
\* _initialize_tools went through (none when use_mcp is false).
SecurityAgentSystem(model_name, use_memory, use_storage, umcp, ss, catalogue, n, env) ==
    InitFrom(model_name, _get_model(model_name, env.litellm), use_memory,
             use_storage, umcp, ss, catalogue, n, env)

\* run_assessment that lets the team pick a session of its own
run_assessment_without_session(sys, task, stream, outcome) ==
    [system |-> sys,
     call |-> [task |-> task, stream |-> stream, session_id |-> 0],
     exc |-> outcome]

\* SecurityAgentSystem.run_assessment: the print_response call it makes on
\* the team, and whether that call raised
run_assessment(sys, task, stream, outcome) ==
    [system |-> sys,
     call |-> [task |-> task, stream |-> stream, session_id |-> sys.session_id],
     exc |-> outcome]

\* the dict of get_agent
AgentTypes ==
    <<
       [key |-> <<"a", "n", "d", "r", "o", "i", "d">>,
        attr |-> "android_agent"],
       [key |-> <<"b", "l", "u", "e", "_", "t", "e", "a", "m">>,
        attr |-> "blue_team_agent"],
       [key |-> <<"b", "u", "g", "_", "b", "o", "u", "n", "t", "y">>,
        attr |-> "bug_bounty_agent"],
       [key |-> <<"c", "o", "d", "i", "n", "g">>,
        attr |-> "coding_agent"],
       [key |-> <<"d", "f", "i", "r">>,
        attr |-> "dfir_agent"],
       [key |-> <<"e", "m", "a", "i", "l">>,
        attr |-> "email_security_agent"],
       [key |-> <<"m", "e", "m", "o", "r", "y">>,
        attr |-> "memory_agent"],
       [key |-> <<"n", "e", "t", "w", "o", "r", "k">>,
        attr |-> "network_agent"],
       [key |-> <<"r", "e", "d", "_", "t", "e", "a", "m">>,
        attr |-> "red_team_agent"],
       [key |-> <<"r", "e", "p", "l", "a", "y">>,
        attr |-> "replay_attack_agent"],
       [key |-> <<"r", "e", "p", "o", "r", "t", "i", "n", "g">>,
        attr |-> "reporting_agent"],
       [key |-> <<"t", "r", "i", "a", "g", "e">>,
        attr |-> "triage_agent"],
       [key |-> <<"r", "e", "v", "e", "r", "s", "e", "_", "e", "n", "g", "i", "n", "e", "e", "r", "i", "n", "g">>,
        attr |-> "reverse_engineering_agent"],
       [key |-> <<"r", "f">>,
        attr |-> "subghz_agent"],
       [key |-> <<"w", "i", "f", "i">>,
        attr |-> "wifi_agent"],
       [key |-> <<"s", "o", "u", "r", "c", "e", "_", "c", "o", "d", "e">>,
        attr |-> "source_code_analyzer_agent"],
       [key |-> <<"s", "a", "s", "t">>,
        attr |-> "source_code_analyzer_agent"]
    >>

\* SecurityAgentSystem.get_agent: agents.get(agent_type.lower())
get_agent(sys, agent_type) ==
    LET found == UNION { { sys.agents[AgentTypes[i].attr] :
                             i \in { j \in DOMAIN AgentTypes : AgentTypes[j].key = key } } :
                         key \in {Lower(agent_type)} }
    IN  IF found = {} THEN None ELSE CHOOSE a \in found : TRUE

-----------------------------------------------------------------------------
(* The harness variables before a call, and while another specification    *)
(* runs.                                                                    *)

Pending  == [exc |-> "pending", cls |-> "none", id |-> <<>>]
NotBuilt == [tools |-> <<>>, mcp_tools |-> None, warnings |-> <<>>, exc |-> "pending",
             catalogue |-> <<>>]

IdleResolve == model_id = <<>> /\ litellm = "ok" /\ resolved = Pending
IdleBuild   == use_mcp = FALSE /\ servers = <<>> /\ bad = {} /\ built = NotBuilt

\* a process that has imported the modules and constructed nothing
NoEnv  == [litellm |-> "ok", bad |-> {}, fault |-> "none"]
NoCall == [op |-> "none", exc |-> "none", session_id |-> 0, result |-> "", env |-> NoEnv]
IdleProcess ==
    /\ SECURITY_TOOLS = Catalogue /\ uuids = 0
    /\ agent_system = None /\ last = NoCall /\ sessions = {}
IdleCaller == args = None
IdleShell ==
    /\ current_model = <<>> /\ memory_enabled = FALSE /\ storage_enabled = FALSE
    /\ mcp_enabled = FALSE /\ mcp_servers = <<>> /\ running = FALSE

-----------------------------------------------------------------------------
(* SpecResolve: identifiers are concatenations of at most MaxTokens tokens. *)

MaxTokens == 2

Tokens ==
    { F_claude, <<"C", "l", "a", "u", "d", "e">>,
      F_gpt, <<"G", "P", "T">>,
      F_o1, <<"O", "3">>,
      F_gemini, <<"G", "e", "m", "i", "n", "i">>,
      <<"m", "i", "s", "t", "r", "a", "l">>,
      <<"t", "u", "r", "b", "o">>,
      <<"3">>, <<"-">> }

RECURSIVE Concat(_)
Concat(ts) == IF ts = <<>> THEN <<>> ELSE Head(ts) \o Concat(Tail(ts))

Identifiers ==
    { Concat(ts) : ts \in UNION { [1..n -> Tokens] : n \in 1..MaxTokens } }

InitResolve ==
    /\ model_id \in Identifiers
    /\ litellm \in LiteLLMOutcomes
    /\ resolved = Pending
    /\ IdleBuild /\ IdleProcess /\ IdleCaller /\ IdleShell

\* one call of the resolver
Resolve ==
    /\ resolved = Pending
    /\ resolved' = _get_model(model_id, litellm)
    /\ UNCHANGED <<model_id, litellm>>
    /\ UNCHANGED <<buildVars, procVars, holderVars, callerVars, shellVars>>

NextResolve == Resolve

SpecResolve == InitResolve /\ [][NextResolve]_vars

-----------------------------------------------------------------------------
(* SpecBuild: the build on every spec list of at most MaxSpecs entries.     *)

MaxSpecs == 3

CmdGit  == [name |-> "Git Repository", command |-> "npx -y @modelcontextprotocol/server-git"]
CmdFs   == [name |-> "Filesystem (.)", command |-> "npx -y @modelcontextprotocol/server-filesystem ."]
UrlDocs == [name |-> "docs", url |-> "https://docs.agno.com/mcp", transport |-> "streamable-http"]
UrlBare == [url |-> "https://mcp.example.org/sse"]
NoKeys  == [name |-> "note"]

SpecChoices == {CmdGit, CmdFs, UrlDocs, UrlBare, NoKeys}

\* what can fail to attach
Attachables == {CmdGit.command, CmdFs.command, UrlDocs.url, UrlBare.url}

SpecLists == UNION { [1..n -> SpecChoices] : n \in 0..MaxSpecs }

InitBuild ==
    /\ use_mcp \in BOOLEAN
    /\ servers \in SpecLists
    /\ bad \in SUBSET Attachables
    /\ built = NotBuilt
    /\ IdleResolve /\ IdleProcess /\ IdleCaller /\ IdleShell

\* one call of the build
Build ==
    /\ built = NotBuilt
    /\ built' = _initialize_tools(SECURITY_TOOLS, use_mcp, servers, bad)
    /\ SECURITY_TOOLS' = built'.catalogue
    /\ UNCHANGED <<use_mcp, servers, bad, uuids>>
    /\ UNCHANGED <<resolveVars, holderVars, callerVars, shellVars>>

NextBuild == Build

SpecBuild == InitBuild /\ [][NextBuild]_vars

-----------------------------------------------------------------------------
(* Properties of the capability build.                                      *)

\* the entries of a spec list by kind, as the provider pool describes them
CommandEntries(ss) == { i \in DOMAIN ss : HasKey(ss[i], "command") }
UrlEntries(ss)     == { i \in DOMAIN ss : ~HasKey(ss[i], "command") /\ HasKey(ss[i], "url") }

\* an entry whose attachment cannot succeed
Malformed(s, b) ==
    \/ HasKey(s, "command") /\ s.command \in b
    \/ ~HasKey(s, "command") /\ HasKey(s, "url") /\ s.url \in b

\* the capability a URL-based entry attaches (streaming HTTP by default)
UrlCapability(s) ==
    MCPTools(s.url, IF HasKey(s, "transport") THEN s.transport ELSE "streamable-http")

BuiltIns == Range(Catalogue) \cup Range(base_tools)

Bridges(tools) == { t \in Range(tools) : t.kind = "MultiMCPTools" }

\* the content of a capability list, whatever the order of attachment
Content(tools) ==
    { IF t.kind = "MultiMCPTools"
      THEN [kind |-> "MultiMCPTools", provides |-> Range(t.commands)]
      ELSE t : t \in Range(tools) }

Perms(n) == { f \in [1..n -> 1..n] : \A i, j \in 1..n : f[i] = f[j] => i = j }
Permute(ss, f) == [i \in 1..Len(ss) |-> ss[f[i]]]

\* C2 as stated: with the bridge enabled and both kinds of entries, a failure
\* constructing the combined command bridge omits only the bridge; every
\* URL-based attachment that itself succeeds is in the returned set.
C2_OnlyBridgeOmitted ==
    ( /\ built # NotBuilt
      /\ use_mcp
      /\ CommandEntries(servers) # {} /\ UrlEntries(servers) # {}
      /\ \E i \in CommandEntries(servers) : Malformed(servers[i], bad) )
    =>
      /\ built.exc = "none"
      /\ Bridges(built.tools) = {}
      /\ \A i \in UrlEntries(servers) :
            ~Malformed(servers[i], bad) => UrlCapability(servers[i]) \in Range(built.tools)

\* C3: when the URL loop is reached (the bridge, if any, was built) and a
\* URL-based attachment fails, the build still returns; the result has the
\* built-ins, the bridge if there are commands, and every other URL-based
\* attachment; it lacks only the failed ones, each with its warning.
C3_UrlFailureSkipped ==
    ( /\ built # NotBuilt
      /\ use_mcp
      /\ \A i \in CommandEntries(servers) : ~Malformed(servers[i], bad)
      /\ \E i \in UrlEntries(servers) : Malformed(servers[i], bad) )
    =>
      /\ built.exc = "none"
      /\ BuiltIns \subseteq Range(built.tools)
      /\ CommandEntries(servers) # {} => Cardinality(Bridges(built.tools)) = 1
      /\ \A i \in UrlEntries(servers) :
            /\ ~Malformed(servers[i], bad)
                 => UrlCapability(servers[i]) \in Range(built.tools)
            /\ Malformed(servers[i], bad)
                 => /\ UrlCapability(servers[i]) \notin Range(built.tools)
                    /\ WarnUrl(servers[i]) \in Range(built.warnings)

\* a build with a bridge, a failed URL-based attachment and, after it in the
\* list, one that succeeded
C3_Witness ==
    /\ built # NotBuilt /\ built.exc = "none"
    /\ Cardinality(Bridges(built.tools)) = 1
    /\ \E i, j \in UrlEntries(servers) :
          /\ i < j
          /\ Malformed(servers[i], bad)
          /\ ~Malformed(servers[j], bad)
          /\ UrlCapability(servers[j]) \in Range(built.tools)

\* C4 as stated: with exactly one malformed entry among otherwise valid
\* entries, the build returns the capabilities of all the valid entries and
\* omits only the malformed one, and the content of the result is the same
\* for every permutation of the list.
C4_OnlyMalformedOmitted ==
    ( /\ built # NotBuilt
      /\ use_mcp
      /\ DOMAIN servers = CommandEntries(servers) \cup UrlEntries(servers)
      /\ Cardinality({ i \in DOMAIN servers : Malformed(servers[i], bad) }) = 1 )
    =>
      /\ built.exc = "none"
      /\ \A i \in UrlEntries(servers) :
            ~Malformed(servers[i], bad) <=> UrlCapability(servers[i]) \in Range(built.tools)
      /\ \A i \in CommandEntries(servers) :
            ~Malformed(servers[i], bad)
               <=> \E t \in Bridges(built.tools) : servers[i].command \in Range(t.commands)
      /\ \A f \in Perms(Len(servers)) :
            Content(_initialize_tools(Catalogue, use_mcp, Permute(servers, f), bad).tools)
               = Content(built.tools)

\* the entries of a list at the indices in idx, in increasing order of index
RECURSIVE InOrder(_, _)
InOrder(ss, idx) ==
    IF idx = {} THEN <<>>
    ELSE LET i == CHOOSE k \in idx : \A m \in idx : k <= m
         IN  <<ss[i]>> \o InOrder(ss, idx \ {i})

BuiltInList == Catalogue \o base_tools

\* C16: the capability list is the built-ins, then at most one bridge (over
\* the commands of all the command-based specs, in input order), then
\* URL-based attachments only, in the order of their specs in the input list
\* (all those that did not fail, when the bridge is on and did not fail); it
\* is exactly the built-ins when the bridge is disabled or the spec list is
\* empty.
C16_Ordered ==
    built # NotBuilt =>
      \E n0 \in {Len(BuiltInList)} :
        \E rest \in {SubSeq(built.tools, n0 + 1, Len(built.tools))} :
          \E urls \in {IF rest # <<>> /\ rest[1].kind = "MultiMCPTools"
                       THEN Tail(rest) ELSE rest} :
            /\ SubSeq(built.tools, 1, n0) = BuiltInList
            /\ Cardinality({ i \in DOMAIN built.tools :
                               built.tools[i].kind = "MultiMCPTools" }) <= 1
            /\ \A i \in DOMAIN built.tools :
                  built.tools[i].kind = "MultiMCPTools" =>
                     /\ i = n0 + 1
                     /\ built.tools[i].commands =
                           [k \in 1..Cardinality(CommandEntries(servers)) |->
                               InOrder(servers, CommandEntries(servers))[k].command]
            /\ \A i \in DOMAIN urls : urls[i].kind = "MCPTools"
            /\ \E kept \in SUBSET UrlEntries(servers) :
                  urls = [k \in 1..Cardinality(kept) |->
                             UrlCapability(InOrder(servers, kept)[k])]
            /\ (use_mcp /\ \A i \in CommandEntries(servers) : ~Malformed(servers[i], bad)) =>
                  \E kept \in {{ i \in UrlEntries(servers) : ~Malformed(servers[i], bad) }} :
                      urls = [k \in 1..Cardinality(kept) |->
                                 UrlCapability(InOrder(servers, kept)[k])]
            /\ (~use_mcp \/ servers = <<>>) => built.tools = BuiltInList

\* a build from a command-based, a URL-based and another command-based
\* spec: the built-ins, one bridge over both commands, then the attachment
C16_Witness ==
    /\ built # NotBuilt /\ use_mcp
    /\ Len(servers) = 3
    /\ CommandEntries(servers) = {1, 3} /\ UrlEntries(servers) = {2}
    /\ servers[1] # servers[3]
    /\ built.tools = BuiltInList
                       \o <<MultiMCPTools(<<servers[1].command, servers[3].command>>),
                            UrlCapability(servers[2])>>

-----------------------------------------------------------------------------
(* SpecSystem: a caller of the class, as main() of Agent.py is: it          *)
(* constructs systems with its arguments and calls run_assessment and       *)
(* get_agent on the instance it holds.                                      *)

MaxServers == 2
MaxBuilds  == 3

M_default == <<"g", "p", "t", "-", "4", "o", "-", "m", "i", "n", "i">>
M_mistral == <<"m", "i", "s", "t", "r", "a", "l">>

\* the specs add_mcp_server can return, by kind
AddChoices == {CmdGit, UrlDocs}

ServerLists == UNION { [1..n -> AddChoices] : n \in 0..MaxServers }

\* the environments of one construction, as far as it can tell them apart:
\* the generic adapter's outcome when the generic branch is taken, the
\* attachments that raise when the bridge is on, and a raising constructor
\* among those called (whatever else would have happened after it)
Envs(model_name, use_memory, use_storage, umcp, ss) ==
    LET generic == _get_model(model_name, "ok").cls = "LiteLLM"
        attached == IF umcp
                    THEN Range(CommandsOf(ss))
                           \cup { UrlServersOf(ss)[i].url : i \in DOMAIN UrlServersOf(ss) }
                    ELSE {}
    IN  { e \in [litellm : LiteLLMOutcomes, bad : SUBSET attached, fault : Faults] :
            /\ e.litellm # "ok" => generic
            /\ e.fault = "storage_db" => use_storage
            /\ e.fault = "memory_db" => use_memory
            /\ (e.fault # "none" \/ e.litellm = "Exception")
                  => (e.bad = {} /\ (e.fault # "none" => e.litellm = "ok")) }

Tasks == {"list OWASP Top 10 categories", "scan 10.0.0.0/24"}

AgentTypeInputs == {<<"s", "a", "s", "t">>, <<"S", "A", "S", "T">>, <<"R", "F">>, <<"n", "o", "p", "e">>}

\* what the latest call did: the exception that left it, the session
\* identifier and the task it submitted, or the name of the agent it
\* returned; for a construction, the environment it ran in
Call(op, exc, session_id, result, env) ==
    [op |-> op, exc |-> exc, session_id |-> session_id, result |-> result,
     env |-> env]

InitSystem ==
    /\ args \in [model_name : {M_default, M_mistral},
                 use_memory : BOOLEAN, use_storage : BOOLEAN, use_mcp : BOOLEAN,
                 mcp_servers : ServerLists]
    /\ IdleResolve /\ IdleBuild /\ IdleProcess /\ IdleShell

\* system = SecurityAgentSystem(**args)
Construct ==
    /\ uuids < MaxBuilds
    /\ \E env \in Envs(args.model_name, args.use_memory, args.use_storage,
                        args.use_mcp, args.mcp_servers) :
         \E r \in {SecurityAgentSystem(args.model_name, args.use_memory,
                      args.use_storage, args.use_mcp, args.mcp_servers,
                      SECURITY_TOOLS, uuids, env)} :
             /\ agent_system' = IF r.exc = "none" THEN r.system ELSE agent_system
             /\ sessions' = IF r.exc = "none"
                            THEN sessions \cup {r.system.session_id} ELSE sessions
             /\ last' = Call("construct", r.exc, 0, "", env)
             /\ uuids' = r.uuids
             /\ SECURITY_TOOLS' = r.catalogue
    /\ UNCHANGED <<resolveVars, buildVars, callerVars, shellVars>>

\* system.run_assessment(task, stream)
RunAssessment ==
    /\ agent_system # None
    /\ \E task \in Tasks, outcome \in {"none", "Exception"} :
         \E r \in {run_assessment(agent_system, task, TRUE, outcome)} :
             /\ agent_system' = r.system
             /\ last' = Call("run_assessment", r.exc, r.call.session_id, r.call.task, NoEnv)
    /\ UNCHANGED <<sessions, procVars, resolveVars, buildVars, callerVars, shellVars>>

\* system.get_agent(agent_type)
GetAgent ==
    /\ agent_system # None
    /\ \E t \in AgentTypeInputs :
         \E a \in {get_agent(agent_system, t)} :
             last' = Call("get_agent", "none", 0,
                          IF a = None THEN "None" ELSE a.name, NoEnv)
    /\ UNCHANGED <<agent_system, sessions, procVars, resolveVars, buildVars,
                   callerVars, shellVars>>

NextSystem == Construct \/ RunAssessment \/ GetAgent

SpecSystem == InitSystem /\ [][NextSystem]_vars

-----------------------------------------------------------------------------
(* Properties of a system and of the calls on it.                           *)

\* the exceptions of the external-provider constructors
AttachmentExceptions == {"MultiMCPTools", "MCPTools"}

\* C5: no construction is left by an exception of an external-provider
\* attachment; whatever the spec list and whichever attachments fail, a
\* construction in which nothing else raises completes, and its capability
\* set has every built-in; when the bridge is on and a command-based entry is
\* invalid, the construction succeeds, the warning is recorded and the
\* capability set has no bridge.
C5_AttachmentFailuresTolerated ==
    last.op = "construct" =>
        /\ last.exc \notin AttachmentExceptions
        /\ (last.env.fault = "none" /\ last.env.litellm # "Exception") =>
              /\ last.exc = "none"
              /\ BuiltIns \subseteq Range(agent_system.all_tools)
              /\ ( /\ args.use_mcp
                    /\ \E i \in CommandEntries(args.mcp_servers) :
                           Malformed(args.mcp_servers[i], last.env.bad) )
                  => /\ WarnMcp \in Range(agent_system.warnings)
                     /\ Bridges(agent_system.all_tools) = {}
                     /\ agent_system.mcp_tools = None

\* a system has been constructed with the bridge on, from a list with a
\* URL-based entry and a command-based entry whose attachment failed
C5_Witness ==
    /\ last.op = "construct" /\ last.exc = "none"
    /\ args.use_mcp
    /\ UrlEntries(args.mcp_servers) # {}
    /\ \E i \in CommandEntries(args.mcp_servers) :
           Malformed(args.mcp_servers[i], last.env.bad)
    /\ WarnMcp \in Range(agent_system.warnings)
    /\ BuiltIns \subseteq Range(agent_system.all_tools)
    /\ Bridges(agent_system.all_tools) = {}

\* C6: run_assessment and get_agent leave the session identifier of the
\* instance as the construction set it, and every task, failing or not, is
\* submitted with that identifier.
C6_SessionSetOnce ==
    [][ (agent_system # None /\ last'.op \in {"run_assessment", "get_agent"}) =>
            /\ agent_system' # None
            /\ agent_system'.session_id = agent_system.session_id
            /\ agent_system.session_id \in sessions
            /\ last'.op = "run_assessment" =>
                   last'.session_id = agent_system.session_id ]_vars

\* a task has failed on an instance that is not the first one constructed,
\* and it was submitted with the identifier of that instance
C6_Witness ==
    /\ agent_system # None
    /\ last.op = "run_assessment" /\ last.exc = "Exception"
    /\ Cardinality(sessions) >= 2
    /\ last.session_id = agent_system.session_id

\* C10: the persistence wiring of every specialist, for every configuration:
\* memory on: the memory store, long-term memories and history; storage on
\* and memory off: the storage store, history, no long-term memories; both
\* on: as memory on (the memory store, not the storage store); both off: no
\* store, no history, no long-term memories.
C10_SpecialistPersistence ==
    agent_system # None =>
        \A a \in AgentAttrs :
            \E ag \in {agent_system.agents[a]} :
                /\ args.use_memory =>
                      /\ ag.db = Ref("memory_db")
                      /\ Deref(agent_system, ag.db) = SqliteDb(MemoryPath)
                      /\ ag.enable_user_memories
                      /\ ag.add_history_to_context
                /\ (args.use_storage /\ ~args.use_memory) =>
                      /\ ag.db = Ref("storage_db")
                      /\ Deref(agent_system, ag.db) = SqliteDb(StoragePath)
                      /\ ~ag.enable_user_memories
                      /\ ag.add_history_to_context
                /\ (~args.use_storage /\ ~args.use_memory) =>
                      /\ ag.db = None
                      /\ ~ag.enable_user_memories
                      /\ ~ag.add_history_to_context

\* a system constructed with memory and storage both on, its bridge on, whose
\* specialists use the memory store while the storage store exists
C10_Witness ==
    /\ agent_system # None
    /\ args.use_memory /\ args.use_storage /\ args.use_mcp
    /\ agent_system.storage_db = SqliteDb(StoragePath)
    /\ \A a \in AgentAttrs :
           Deref(agent_system, agent_system.agents[a].db) = SqliteDb(MemoryPath)

\* C11 as stated: in every constructed system the router has the model
\* adapter of the specialists and the persistence handle of the specialists:
\* the same store when they hold one, none when they hold none.
C11_RouterSharesModelAndStore ==
    agent_system # None =>
        \A a \in AgentAttrs :
            /\ agent_system.security_team.model = agent_system.agents[a].model
            /\ agent_system.security_team.db = agent_system.agents[a].db
            /\ Deref(agent_system, agent_system.security_team.db)
                  = Deref(agent_system, agent_system.agents[a].db)

-----------------------------------------------------------------------------
(* Spec: the command loop of main() in crossbow_cli.py.  Init is the shell  *)
(* at its first prompt: the arguments parsed and the first system           *)
(* constructed (a failure there exits before the loop).  One action is one  *)
(* pass through the loop body.  Console output is not modelled.             *)

\* the input that is not a command
CliTasks == {"scan 10.0.0.0/24"}

\* the identifiers get_model_input returns here: a listed one and a custom one
CliModels == {M_default, M_mistral}

\* `x_enabled = not x_enabled` before the try of a toggle handler
Toggle(enabled) == ~enabled

\* a toggle handler whose except clause leaves the flag as toggled
RevertOnErrorMissing(toggled) == toggled

\* `x_enabled = not x_enabled  # Revert on error`
RevertOnError(toggled) == ~toggled

\* an /add-mcp handler that rebuilds whether the bridge is on or off
RebuildsOnAddAlways(enabled) == TRUE

\* `if mcp_enabled:` of the /add-mcp handler: the system is rebuilt only
\* when the bridge is on
RebuildsOnAdd(enabled) == enabled

\* a loop without its `except Exception` clause: an exception of a task
\* leaves main
LoopContinuesUncaught(exc) == exc = "none"

\* the exception boundary of the loop body: `except KeyboardInterrupt: break`,
\* `except Exception as e:` print and go on
LoopContinues(exc) == exc # "KeyboardInterrupt"

\* an /add-mcp handler whose except clause leaves the new spec in the pool
PopMissing(list) == list

\* list.pop()
Pop(list) == SubSeq(list, 1, Len(list) - 1)

\* `except Exception as e` of a handler: whatever the constructor raised
Caught(r) == IF r.exc = "none" THEN r ELSE [r EXCEPT !.exc = "Exception"]

\* the outcomes of SecurityAgentSystem(model_name=..., use_memory=..., ...)
\* inside a handler's try, in the process as it is, over the environments of
\* that construction
Rebuilds(model_name, use_memory, use_storage, umcp, ss) ==
    { Caught(SecurityAgentSystem(model_name, use_memory, use_storage, umcp, ss,
                                 SECURITY_TOOLS, uuids, env)) :
        env \in Envs(model_name, use_memory, use_storage, umcp, ss) }

\* try: agent_system = SecurityAgentSystem(...)  except Exception: ...
\* the assignment happens only when the constructor returned
TryRebuild(op, r) ==
    /\ agent_system' = IF r.exc = "none" THEN r.system ELSE agent_system
    /\ sessions' = IF r.exc = "none"
                   THEN sessions \cup {r.system.session_id} ELSE sessions
    /\ uuids' = r.uuids
    /\ SECURITY_TOOLS' = r.catalogue
    /\ last' = Call(op, r.exc, 0, "", NoEnv)

\* except KeyboardInterrupt: break, when the interrupt arrives while the
\* handler is constructing the new system
Interrupted(op) ==
    /\ running' = FALSE
    /\ last' = Call(op, "KeyboardInterrupt", 0, "", NoEnv)
    /\ UNCHANGED <<agent_system, sessions, procVars>>

Init ==
    /\ current_model \in CliModels
    /\ memory_enabled \in BOOLEAN
    /\ storage_enabled \in BOOLEAN
    /\ mcp_enabled \in BOOLEAN
    /\ mcp_servers = <<>>
    /\ running = TRUE
    /\ \E env \in Envs(current_model, memory_enabled, storage_enabled,
                        mcp_enabled, mcp_servers) :
         \E r \in {SecurityAgentSystem(current_model, memory_enabled,
                      storage_enabled, mcp_enabled, mcp_servers, Catalogue, 0, env)} :
             /\ r.exc = "none"
             /\ agent_system = r.system
             /\ uuids = r.uuids
             /\ SECURITY_TOOLS = r.catalogue
             /\ sessions = {r.system.session_id}
    /\ last = Call("main", "none", 0, "", NoEnv)
    /\ IdleResolve /\ IdleBuild /\ IdleCaller

\* /quit, /exit, /q, or Ctrl-C at the prompt: break
Quit ==
    /\ running
    /\ running' = FALSE
    /\ last' = Call("/quit", "none", 0, "", NoEnv)
    /\ UNCHANGED <<current_model, memory_enabled, storage_enabled, mcp_enabled,
                   mcp_servers, agent_system, sessions, procVars>>
    /\ UNCHANGED <<resolveVars, buildVars, callerVars>>

\* empty input, /help, /clear, /status, an unknown command: output only
Passive ==
    /\ running
    /\ UNCHANGED vars

\* /memory
CmdMemory ==
    /\ running /\ uuids < MaxBuilds
    /\ \E toggled \in {Toggle(memory_enabled)} :
         \/ /\ \E r \in Rebuilds(current_model, toggled, storage_enabled,
                                 mcp_enabled, mcp_servers) :
                  /\ TryRebuild("/memory", r)
                  /\ memory_enabled' = IF r.exc = "none" THEN toggled
                                       ELSE RevertOnError(toggled)
            /\ UNCHANGED running
         \/ /\ Interrupted("/memory")
            /\ memory_enabled' = toggled
    /\ UNCHANGED <<current_model, storage_enabled, mcp_enabled, mcp_servers>>
    /\ UNCHANGED <<resolveVars, buildVars, callerVars>>

\* /storage
CmdStorage ==
    /\ running /\ uuids < MaxBuilds
    /\ \E toggled \in {Toggle(storage_enabled)} :
         \/ /\ \E r \in Rebuilds(current_model, memory_enabled, toggled,
                                 mcp_enabled, mcp_servers) :
                  /\ TryRebuild("/storage", r)
                  /\ storage_enabled' = IF r.exc = "none" THEN toggled
                                        ELSE RevertOnError(toggled)
            /\ UNCHANGED running
         \/ /\ Interrupted("/storage")
            /\ storage_enabled' = toggled
    /\ UNCHANGED <<current_model, memory_enabled, mcp_enabled, mcp_servers>>
    /\ UNCHANGED <<resolveVars, buildVars, callerVars>>

\* /mcp
CmdMcp ==
    /\ running /\ uuids < MaxBuilds
    /\ \E toggled \in {Toggle(mcp_enabled)} :
         \/ /\ \E r \in Rebuilds(current_model, memory_enabled, storage_enabled,
                                 toggled, mcp_servers) :
                  /\ TryRebuild("/mcp", r)
                  /\ mcp_enabled' = IF r.exc = "none" THEN toggled
                                    ELSE RevertOnError(toggled)
            /\ UNCHANGED running
         \/ /\ Interrupted("/mcp")
            /\ mcp_enabled' = toggled
    /\ UNCHANGED <<current_model, memory_enabled, storage_enabled, mcp_servers>>
    /\ UNCHANGED <<resolveVars, buildVars, callerVars>>

\* /add-mcp: add_mcp_server() returns None (cancelled, invalid) or a spec
CmdAddMcp ==
    /\ running
    /\ \/ /\ last' = Call("/add-mcp", "none", 0, "cancelled", NoEnv)
          /\ UNCHANGED <<mcp_servers, running, agent_system, sessions, procVars>>
       \/ /\ Len(mcp_servers) < MaxServers
          /\ \E new_server \in AddChoices :
               \E appended \in {Append(mcp_servers, new_server)} :
                  IF RebuildsOnAdd(mcp_enabled)
                  THEN /\ uuids < MaxBuilds
                       /\ \/ /\ \E r \in Rebuilds(current_model, memory_enabled,
                                             storage_enabled, mcp_enabled, appended) :
                                   /\ TryRebuild("/add-mcp", r)
                                   /\ mcp_servers' = IF r.exc = "none" THEN appended
                                                     ELSE Pop(appended)
                             /\ UNCHANGED running
                          \/ /\ Interrupted("/add-mcp")
                             /\ mcp_servers' = appended
                  ELSE /\ mcp_servers' = appended
                       /\ last' = Call("/add-mcp", "none", 0, "", NoEnv)
                       /\ UNCHANGED <<running, agent_system, sessions, procVars>>
    /\ UNCHANGED <<current_model, memory_enabled, storage_enabled, mcp_enabled>>
    /\ UNCHANGED <<resolveVars, buildVars, callerVars>>

\* /model: get_model_input() returns an identifier
CmdModel ==
    /\ running
    /\ \E new_model \in CliModels :
         IF new_model # current_model
         THEN /\ uuids < MaxBuilds
              /\ \/ /\ \E r \in Rebuilds(new_model, memory_enabled, storage_enabled,
                                         mcp_enabled, mcp_servers) :
                          /\ TryRebuild("/model", r)
                          /\ current_model' = IF r.exc = "none" THEN new_model
                                              ELSE current_model
                    /\ UNCHANGED running
                 \/ /\ Interrupted("/model")
                    /\ UNCHANGED current_model
         ELSE /\ last' = Call("/model", "none", 0, "unchanged", NoEnv)
              /\ UNCHANGED <<current_model, running, agent_system, sessions, procVars>>
    /\ UNCHANGED <<memory_enabled, storage_enabled, mcp_enabled, mcp_servers>>
    /\ UNCHANGED <<resolveVars, buildVars, callerVars>>

\* any other input: agent_system.run_assessment(user_input, stream=True);
\* an exception of it is caught by the loop, an interrupt ends the loop
Task ==
    /\ running
    /\ \E task \in CliTasks, outcome \in {"none", "Exception", "KeyboardInterrupt"} :
         \E r \in {run_assessment(agent_system, task, TRUE, outcome)} :
             /\ agent_system' = r.system
             /\ last' = Call("task", r.exc, r.call.session_id, r.call.task, NoEnv)
             /\ running' = LoopContinues(r.exc)
    /\ UNCHANGED <<current_model, memory_enabled, storage_enabled, mcp_enabled,
                   mcp_servers, sessions, procVars>>
    /\ UNCHANGED <<resolveVars, buildVars, callerVars>>

Next ==
    \/ Quit
    \/ Passive
    \/ CmdMemory
    \/ CmdStorage
    \/ CmdMcp
    \/ CmdAddMcp
    \/ CmdModel
    \/ Task

Spec == Init /\ [][Next]_vars

-----------------------------------------------------------------------------
(* Properties of the shell's reconfiguration commands.                      *)

ReconfigOps == {"/memory", "/storage", "/mcp", "/add-mcp", "/model"}

\* what the reconfiguration commands toggle: the flags, the provider pool,
\* the current model
Toggled == <<memory_enabled, storage_enabled, mcp_enabled, mcp_servers, current_model>>

\* the commands that construct a system when they change a value: all but
\* /add-mcp with the bridge off
Rebuilding(op) == op \in ReconfigOps /\ ~(op = "/add-mcp" /\ ~mcp_enabled)

C7_FreshSession ==
    [][ /\ agent_system.session_id \in sessions
        /\ (Rebuilding(last'.op) /\ last'.exc = "none" /\ Toggled' # Toggled) =>
              /\ agent_system'.session_id \notin sessions
              /\ sessions' = sessions \cup {agent_system'.session_id}
        /\ (last'.op \in ReconfigOps /\ last'.exc = "Exception") =>
              /\ agent_system'.session_id = agent_system.session_id
              /\ sessions' = sessions
        /\ last'.op = "task" =>
              /\ last'.session_id = agent_system.session_id
              /\ agent_system'.session_id = agent_system.session_id ]_vars

\* a task has run under the identifier of the third system of the shell,
\* after two successful reconfigurations
C7_Witness ==
    /\ last.op = "task"
    /\ Cardinality(sessions) >= 3
    /\ last.session_id = agent_system.session_id
    /\ \A id \in sessions : id <= last.session_id

-----------------------------------------------------------------------------
(* Properties of the systems the shell holds.                               *)

\* C12: in the active system, whatever the configuration and however many
\* rebuilds came before, every specialist references one and the same model
\* adapter object and one and the same capability set object: those of the
\* system.
C12_OneModelOneCapabilitySet ==
    \E ags \in {agent_system.agents} :
        /\ \A a, b \in AgentAttrs :
              /\ ags[a].model = ags[b].model
              /\ ags[a].tools = ags[b].tools
        /\ \A a \in AgentAttrs :
              /\ ags[a].model = Ref("model")
              /\ ags[a].tools = Ref("all_tools")
              /\ Deref(agent_system, ags[a].model) = agent_system.model
              /\ Deref(agent_system, ags[a].tools) = agent_system.all_tools

\* the third system of a shell, built with the bridge on and a bridge in its
\* capability set, on a model of the generic branch
C12_Witness ==
    /\ Cardinality(sessions) >= 3
    /\ agent_system.use_mcp
    /\ Bridges(agent_system.all_tools) # {}
    /\ agent_system.model.cls = "LiteLLM"
    /\ \A a \in AgentAttrs :
          Deref(agent_system, agent_system.agents[a].tools) = agent_system.all_tools

\* the roster of a system's router: the name and role of each member, in the
\* order of the member list
Roster(sys) ==
    [i \in 1..Len(sys.security_team.members) |->
        <<sys.agents[sys.security_team.members[i]].name,
          sys.agents[sys.security_team.members[i]].role>>]

\* the sixteen specialists, by name and role, in roster order
RosterExpected ==
    << <<"Android SAST Specialist", "Android Security Testing Expert">>,
       <<"Blue Team Defender", "Defense and Security Monitoring">>,
       <<"Bug Bounty Hunter", "Web Vulnerability Research">>,
       <<"Security Developer", "Security Tool Development">>,
       <<"DFIR Investigator", "Digital Forensics and Incident Response">>,
       <<"Email Security Analyst", "Email Configuration Security">>,
       <<"Memory Forensics Expert", "Runtime Memory Analysis">>,
       <<"Network Security Analyst", "Network Traffic Analysis">>,
       <<"Red Team Operator", "Offensive Security Operations">>,
       <<"Replay Attack Specialist", "Network Replay and Analysis">>,
       <<"Security Reporter", "Security Documentation">>,
       <<"Vulnerability Validator", "Security Finding Verification">>,
       <<"Reverse Engineer", "Binary Analysis and RE">>,
       <<"RF Security Expert", "Sub-GHz Radio Analysis">>,
       <<"WiFi Security Tester", "Wireless Network Security">>,
       <<"Source Code Analyzer", "SAST and Exploit Verification Specialist">> >>

\* C13: the roster of the router of every system the shell holds has sixteen
\* members with the same names and roles in the same order, whatever the
\* model, the flags and the provider pool, and so also after memory has been
\* on, off and on again and between constructions with identical arguments.
C13_RosterFixed ==
    \E members \in {agent_system.security_team.members} :
        /\ Len(members) = 16
        /\ Roster(agent_system) = RosterExpected
        /\ DOMAIN agent_system.agents = Range(members)

\* the third system of a shell, constructed by /memory with memory on: the
\* systems before it had memory on, then off
C13_Witness ==
    /\ Cardinality(sessions) >= 3
    /\ last.op = "/memory" /\ last.exc = "none"
    /\ memory_enabled /\ agent_system.use_memory
    /\ Len(Roster(agent_system)) = 16

\* C14: the capability set of a live system changes only when a new system
\* is constructed: a step that keeps the session identifier keeps the
\* instance, its capability set and its bridge; and /add-mcp with the bridge
\* off appends the provider to the pool and leaves the active instance, its
\* session identifier and its capability set as they were.
C14_NoIncrementalAttach ==
    [][ /\ agent_system'.session_id = agent_system.session_id =>
              /\ agent_system' = agent_system
              /\ agent_system'.all_tools = agent_system.all_tools
              /\ agent_system'.mcp_tools = agent_system.mcp_tools
        /\ agent_system'.all_tools # agent_system.all_tools =>
              agent_system'.session_id \notin sessions
        /\ (last'.op = "/add-mcp" /\ ~mcp_enabled /\ last'.result # "cancelled") =>
              /\ Len(mcp_servers') = Len(mcp_servers) + 1
              /\ SubSeq(mcp_servers', 1, Len(mcp_servers)) = mcp_servers
              /\ mcp_servers'[Len(mcp_servers')] \in AddChoices
              /\ agent_system' = agent_system
              /\ sessions' = sessions /\ uuids' = uuids ]_vars

\* a provider has been added with the bridge off to a pool that the active
\* system was given when it was built; the system has no attachment
C14_Witness ==
    /\ last.op = "/add-mcp" /\ last.exc = "none" /\ last.result # "cancelled"
    /\ ~mcp_enabled
    /\ Len(mcp_servers) >= 2
    /\ agent_system.mcp_servers_is_arg
    /\ Range(agent_system.all_tools) = BuiltIns

\* C15: a task that fails aborts only that task: the loop goes on, and the
\* active instance, its session identifier, the model, the flags and the
\* provider pool are as before; the task was submitted to the active
\* instance, and so is a task that follows a failed one.
C15_FailedTaskAbortsOnlyItself ==
    [][ /\ (last'.op = "task" /\ last'.exc = "Exception") =>
              /\ running'
              /\ agent_system' = agent_system
              /\ agent_system'.session_id = agent_system.session_id
              /\ Toggled' = Toggled
              /\ sessions' = sessions /\ uuids' = uuids
              /\ last'.session_id = agent_system.session_id
        /\ (last.op = "task" /\ last.exc = "Exception" /\ last'.op = "task") =>
              /\ last'.session_id = last.session_id
              /\ agent_system' = agent_system ]_vars

\* a task has failed on the second system of a shell whose bridge is on, and
\* the shell is at its prompt
C15_Witness ==
    /\ running
    /\ last.op = "task" /\ last.exc = "Exception"
    /\ last.session_id = agent_system.session_id
    /\ Cardinality(sessions) >= 2
    /\ mcp_enabled /\ mcp_servers # <<>>

Extras(sys) == SubSeq(sys.all_tools, Len(BuiltInList) + 1, Len(sys.all_tools))

\* C19: after any number of constructions, with any provider pools and
\* attachment outcomes, the module-level catalogue is as imported, and the
\* capability set of the active system (a new one, or a previous one kept
\* after a failed rebuild) is the built-ins followed by attachments of its own
\* construction only: at most one bridge, over the commands of the specs it
\* was built from, and at most one attachment per URL-based spec it was built
\* from; nothing carried over or accumulated.
C19_NothingCarriedOver ==
    /\ SECURITY_TOOLS = Catalogue
    /\ SubSeq(agent_system.all_tools, 1, Len(BuiltInList)) = BuiltInList
    /\ \E extras \in {Extras(agent_system)}, from \in {agent_system.attached_from} :
          /\ \A i \in DOMAIN extras :
                \/ /\ extras[i].kind = "MultiMCPTools"
                   /\ Range(extras[i].commands)
                         = { from[j].command : j \in CommandEntries(from) }
                \/ \E j \in UrlEntries(from) : extras[i] = UrlCapability(from[j])
          /\ Len(extras) <= Cardinality(UrlEntries(from))
                              + (IF CommandEntries(from) = {} THEN 0 ELSE 1)
    /\ ~agent_system.use_mcp => agent_system.all_tools = BuiltInList

\* the third system of a shell, with a bridge and a URL-based attachment,
\* built after a system that had attachments too
C19_Witness ==
    /\ Cardinality(sessions) >= 3
    /\ last.op = "/add-mcp" /\ last.exc = "none"
    /\ mcp_enabled /\ Len(mcp_servers) = 2
    /\ Len(Extras(agent_system)) = 2
    /\ Bridges(agent_system.all_tools) # {}

-----------------------------------------------------------------------------
(* Properties of the resolver.  The claims speak of an identifier          *)
(* "containing a provider's name fragment, case-insensitively"; that is    *)
(* stated here letter by letter, independently of Lower and Contains.      *)

SameLetter(a, b) ==
    \/ a = b
    \/ <<a, b>> \in { <<"A", "a">>, <<"C", "c">>, <<"D", "d">>, <<"E", "e">>,
                      <<"G", "g">>, <<"I", "i">>, <<"L", "l">>, <<"M", "m">>,
                      <<"N", "n">>, <<"O", "o">>, <<"P", "p">>, <<"T", "t">>,
                      <<"U", "u">> }

Mentions(id, frag) ==
    \E i \in 1..Len(id) :
        /\ i + Len(frag) - 1 <= Len(id)
        /\ \A k \in 1..Len(frag) : SameLetter(id[i + k - 1], frag[k])

NamesAnthropic(id) == Mentions(id, F_claude)
NamesOpenAI(id)    == Mentions(id, F_gpt) \/ Mentions(id, F_o1) \/ Mentions(id, F_o3)
NamesGoogle(id)    == Mentions(id, F_gemini)
NamesNone(id)      == ~NamesAnthropic(id) /\ ~NamesOpenAI(id) /\ ~NamesGoogle(id)

\* C8 as stated: whichever first-class provider's fragment the identifier
\* contains, the resolver returns that provider's adapter, also when the
\* identifier contains fragments of more than one provider.
C8_EveryNamedProvider ==
    resolved # Pending =>
        /\ NamesAnthropic(model_id) => resolved = Adapter("Claude", model_id)
        /\ NamesOpenAI(model_id)    => resolved = Adapter("OpenAIChat", model_id)
        /\ NamesGoogle(model_id)    => resolved = Adapter("Gemini", model_id)

\* C8 amended: the resolver returns the adapter of the first provider, in the
\* order Anthropic, OpenAI, Google, whose fragment the identifier contains
\* (case-insensitively); an identifier naming exactly one provider therefore
\* gets that provider's adapter.
C8_FirstNamedProvider ==
    resolved # Pending =>
        /\ NamesAnthropic(model_id) => resolved = Adapter("Claude", model_id)
        /\ (~NamesAnthropic(model_id) /\ NamesOpenAI(model_id))
              => resolved = Adapter("OpenAIChat", model_id)
        /\ (~NamesAnthropic(model_id) /\ ~NamesOpenAI(model_id) /\ NamesGoogle(model_id))
              => resolved = Adapter("Gemini", model_id)

\* an identifier naming two providers has been resolved, in mixed case
C8_Witness ==
    /\ resolved # Pending
    /\ NamesOpenAI(model_id) /\ NamesGoogle(model_id)
    /\ ~Contains(model_id, F_gpt) /\ ~Contains(model_id, F_gemini)
    /\ resolved.cls = "OpenAIChat"

\* C9 as stated: the resolver never raises; an identifier naming no
\* first-class provider gets the generic adapter, and whenever the generic
\* adapter is unavailable or fails to instantiate, the default adapter.
C9_NeverRaises ==
    (resolved # Pending /\ NamesNone(model_id)) =>
        /\ resolved.exc = "none"
        /\ litellm = "ok" => resolved = Adapter("LiteLLM", model_id)
        /\ litellm # "ok" => resolved = Adapter("OpenAIChat", model_id)

====
